---------------------------- MODULE Spec2Model ----------------------------
(***************************************************************************)
(* Model of the blockly-ios maintenance scripts:                           *)
(*   Scripts/common.py               read_json_file, InputError            *)
(*   Scripts/update_i18n_messages.py update_i18n_messages                  *)
(*   Scripts/update_localization.py  main                                  *)
(*   Scripts/pull_web_blockly.py     pullFile and the module body          *)
(*                                                                         *)
(* A file name is a sequence of parts ("be-tarask", ".json"); the string   *)
(* the scripts see is the concatenation of the parts.  A JSON object is a  *)
(* function from its keys to its values.  The order in which os.walk lists *)
(* a directory is arbitrary: the loop over json_files visits any file that *)
(* it has not visited yet.  The content of a locale file is what the       *)
(* script finds when it opens the file: an input of that loop iteration.   *)
(* Input files hold JSON objects, unreadable bytes or invalid JSON.         *)
(***************************************************************************)
EXTENDS Naturals, Sequences, FiniteSets, TLC

VARIABLES
  script,        \* which locale merger runs: "update_i18n_messages" | "update_localization"
  web_json_dir,  \* source tree: the names (parts) of the files of msg/json
  en_content,    \* source tree: the raw content of en.json
  ios_dirs,      \* names of the "<code>.lproj" directories under ios_messages_dir
  ios_files,     \* destination tree: relative path -> content written
  pc,            \* position of the merger script
  all_messages,  \* the baseline dictionary loaded from en.json
  json_files,    \* the file names os.walk listed
  visited,       \* file name -> what the loop did with that file
  exists_calls,  \* directory names passed to path.exists
  stdout,        \* messages printed
  raised,        \* the exception that ended the run, "none" while there is none
  pull           \* state of pull_web_blockly.py

vars == <<script, web_json_dir, en_content, ios_dirs, ios_files, pc, all_messages,
          json_files, visited, exists_calls, stdout, raised, pull>>


(***************************************************************************)
(* Bounds of the model.                                                    *)
(***************************************************************************)
\* Number of files in msg/json besides en.json, constants.json, synonyms.json.
MaxLocaleFiles == 2

(***************************************************************************)
(* Strings and file names.                                                 *)
(***************************************************************************)
RECURSIVE Concat(_)
Concat(parts) == IF parts = <<>> THEN "" ELSE Head(parts) \o Concat(Tail(parts))

\* str.endswith(".json")
endswith_json(parts) == Len(parts) > 0 /\ parts[Len(parts)] = ".json"

\* str.replace(".json", ""): every occurrence is removed, not only the suffix.
replace_json(parts) == SelectSeq(parts, LAMBDA p : p # ".json")

en_json        == <<"en", ".json">>
constants_json == <<"constants", ".json">>
synonyms_json  == <<"synonyms", ".json">>
qqq_json       == <<"qqq", ".json">>

\* The files both scripts need: two copied verbatim, one read as the baseline.
RequiredFiles == {constants_json, synonyms_json, en_json}

\* The other directory entries the model draws from.
OtherFiles ==
  { qqq_json,
    <<"README", ".md">>,
    <<"be", ".json">>,
    <<"be-tarask", ".json">>,
    <<"ab", ".json">>,
    <<"lrc", ".json">>,
    <<"oc", ".json", ".json">> }

(***************************************************************************)
(* Raw file contents and dictionaries.                                     *)
(***************************************************************************)
EmptyDict == [k \in {} |-> ""]

\* The file cannot be opened (codecs.open raises IOError).
Unreadable == [kind |-> "unreadable", obj |-> EmptyDict]
\* The file opens but is not valid JSON (json.load raises ValueError).
NotJson    == [kind |-> "invalid", obj |-> EmptyDict]
Object(o)  == [kind |-> "object", obj |-> o]

EnObject == ("@metadata" :> "authors") @@ ("A" :> "1") @@ ("B" :> "2")
L1Object == ("@metadata" :> "translators") @@ ("B" :> "deux") @@ ("C" :> "trois")
L2Object == ("A" :> "un")

\* Contents of en.json and of a locale file.
EnContents     == {Unreadable, NotJson, Object(EnObject)}
LocaleContents == {Unreadable, NotJson, Object(L1Object), Object(L2Object)}
\* A file the loop did not open.
NotRead == [kind |-> "notread", obj |-> EmptyDict]

(***************************************************************************)
(* common.py                                                               *)
(***************************************************************************)
\* del defs['@metadata'] when present
del_metadata(defs) == [k \in (DOMAIN defs) \ {"@metadata"} |-> defs[k]]

\* read_json_file(filename): the dictionary, or the exception that escapes.
\* `dir` maps the names of the files of the directory to their raw content.
\* Only ValueError is caught and wrapped; an IOError of codecs.open is not.
read_json_file(dir, filename) ==
  IF ~endswith_json(filename)
    THEN [exc |-> "InputError", location |-> Concat(filename), defs |-> EmptyDict,
          printed |-> {}]
  ELSE IF filename \notin DOMAIN dir \/ dir[filename].kind = "unreadable"
    THEN [exc |-> "IOError", location |-> "", defs |-> EmptyDict, printed |-> {}]
  ELSE IF dir[filename].kind = "invalid"
    THEN [exc |-> "InputError", location |-> Concat(filename), defs |-> EmptyDict,
          printed |-> {<<"Error reading", Concat(filename)>>}]
  ELSE [exc |-> "none", location |-> "", defs |-> del_metadata(dir[filename].obj),
        printed |-> {}]

(***************************************************************************)
(* Python dictionaries: copy() makes a new object, update() changes the    *)
(* receiver in place.                                                      *)
(***************************************************************************)
dict_update(d, e) ==
  [k \in (DOMAIN d) \cup (DOMAIN e) |-> IF k \in DOMAIN e THEN e[k] ELSE d[k]]


(***************************************************************************)
(* update_i18n_messages.py                                                 *)
(***************************************************************************)
\* Variant of mapped_language_code: the be-tarask entry is missing.
mapped_language_code_unmapped(language_code) == language_code

\* mapped_language_code of update_i18n_messages.py
mapped_language_code(language_code) ==
  IF language_code = "be-tarask" THEN "be" ELSE language_code

\* The list of the "language_code in [...]" test of update_i18n_messages.
unsupported_i18n ==
  {"ab", "ba", "bcc", "diq", "hrx", "ia", "lki", "oc",
   "pms", "sc", "sd", "shn", "tcy", "tl", "tlh"}

\* Variant of update_i18n_messages_check: the branch of the unsupported list
\* prints its message and lacks the "continue", so the file is processed.
update_i18n_messages_check_nocontinue(json_file, dirs) ==
  IF ~endswith_json(json_file)
     \/ Concat(json_file) \in {"qqq.json", "constants.json", "synonyms.json"}
    THEN [kind |-> "ignored", language_code |-> "", ios_language_dir |-> "",
          exists_called |-> {}, printed |-> {}]
  ELSE
    LET language_code    == mapped_language_code(Concat(replace_json(json_file)))
        ios_language_dir == language_code \o ".lproj"
    IN IF language_code \in unsupported_i18n
         THEN [kind |-> "process", language_code |-> language_code,
               ios_language_dir |-> ios_language_dir, exists_called |-> {},
               printed |-> {<<"Skipping unsupported", language_code>>}]
       ELSE IF ios_language_dir \notin dirs
         THEN [kind |-> "nodir", language_code |-> language_code,
               ios_language_dir |-> ios_language_dir,
               exists_called |-> {ios_language_dir},
               printed |-> {<<"[WARNING] Skipping", Concat(json_file), language_code>>}]
       ELSE [kind |-> "process", language_code |-> language_code,
             ios_language_dir |-> ios_language_dir,
             exists_called |-> {ios_language_dir}, printed |-> {}]

\* The part of one loop iteration that decides whether json_file is
\* processed: the reserved names, the code mapping, the unsupported list
\* and the path.exists test, in the order of the code.
\* `dirs` are the directories that exist under ios_messages_dir.
update_i18n_messages_check(json_file, dirs) ==
  IF ~endswith_json(json_file)
     \/ Concat(json_file) \in {"qqq.json", "constants.json", "synonyms.json"}
    THEN [kind |-> "ignored", language_code |-> "", ios_language_dir |-> "",
          exists_called |-> {}, printed |-> {}]
  ELSE
    LET language_code    == mapped_language_code(Concat(replace_json(json_file)))
        ios_language_dir == language_code \o ".lproj"
    IN IF language_code \in unsupported_i18n
         THEN [kind |-> "unsupported", language_code |-> language_code,
               ios_language_dir |-> ios_language_dir, exists_called |-> {},
               printed |-> {<<"Skipping unsupported", language_code>>}]
       ELSE IF ios_language_dir \notin dirs
         THEN [kind |-> "nodir", language_code |-> language_code,
               ios_language_dir |-> ios_language_dir,
               exists_called |-> {ios_language_dir},
               printed |-> {<<"[WARNING] Skipping", Concat(json_file), language_code>>}]
       ELSE [kind |-> "process", language_code |-> language_code,
             ios_language_dir |-> ios_language_dir,
             exists_called |-> {ios_language_dir}, printed |-> {}]

\* Variant of update_i18n_messages_merge: all_messages.update(...) without
\* the copy(), so the baseline itself is changed.
update_i18n_messages_merge_inplace(base, dir, json_file, ios_language_dir) ==
  LET r == read_json_file(dir, json_file)
  IN IF r.exc # "none"
       THEN [exc |-> r.exc, location |-> r.location, all_messages |-> base,
             loaded |-> EmptyDict, merged |-> EmptyDict, ios_json_path |-> "",
             printed |-> r.printed]
     ELSE [exc |-> "none", location |-> "",
           all_messages |-> dict_update(base, r.defs),
           loaded |-> r.defs, merged |-> dict_update(base, r.defs),
           ios_json_path |-> ios_language_dir \o "/bky_messages.json",
           printed |-> {}]

\* Variant of update_i18n_messages_merge: a failure of read_json_file is
\* caught, and the iteration goes on with an empty dictionary.
update_i18n_messages_merge_caught(base, dir, json_file, ios_language_dir) ==
  LET r == read_json_file(dir, json_file)
  IN [exc |-> "none", location |-> "", all_messages |-> base,
      loaded |-> r.defs, merged |-> dict_update(base, r.defs),
      ios_json_path |-> ios_language_dir \o "/bky_messages.json",
      printed |-> r.printed]

\* The rest of the iteration: copy the baseline, update the copy with the
\* file's dictionary, and name the file to write.  `base` is all_messages;
\* the record's all_messages is its value after the statements (copy() left
\* it alone).
update_i18n_messages_merge(base, dir, json_file, ios_language_dir) ==
  LET r == read_json_file(dir, json_file)
  IN IF r.exc # "none"
       THEN [exc |-> r.exc, location |-> r.location, all_messages |-> base,
             loaded |-> EmptyDict, merged |-> EmptyDict, ios_json_path |-> "",
             printed |-> r.printed]
     ELSE [exc |-> "none", location |-> "", all_messages |-> base,
           loaded |-> r.defs, merged |-> dict_update(base, r.defs),
           ios_json_path |-> ios_language_dir \o "/bky_messages.json",
           printed |-> {}]

(***************************************************************************)
(* update_localization.py                                                  *)
(***************************************************************************)
\* mapped_language_code of update_localization.py
main_mapped_language_code(language_code) ==
  IF language_code = "be-tarask" THEN "be" ELSE language_code

\* The list of the "language_code in [...]" test of main.
unsupported_localization ==
  {"ba", "bcc", "diq", "hrx", "ia", "lki", "lrc", "oc",
   "pms", "sc", "sd", "shn", "tcy", "tl", "tlh"}

\* Variant of main_check: the path.exists test is missing.
main_check_noexists(json_file, dirs) ==
  IF ~endswith_json(json_file)
     \/ Concat(json_file) \in {"qqq.json", "constants.json", "synonyms.json"}
    THEN [kind |-> "ignored", language_code |-> "", ios_language_dir |-> "",
          exists_called |-> {}, printed |-> {}]
  ELSE
    LET language_code    == main_mapped_language_code(Concat(replace_json(json_file)))
        ios_language_dir == language_code \o ".lproj"
    IN IF language_code \in unsupported_localization
         THEN [kind |-> "unsupported", language_code |-> language_code,
               ios_language_dir |-> ios_language_dir, exists_called |-> {},
               printed |-> {<<"Skipping unsupported", language_code>>}]
       ELSE [kind |-> "process", language_code |-> language_code,
             ios_language_dir |-> ios_language_dir,
             exists_called |-> {}, printed |-> {}]

\* The part of one loop iteration of main that decides whether json_file is
\* processed.
main_check(json_file, dirs) ==
  IF ~endswith_json(json_file)
     \/ Concat(json_file) \in {"qqq.json", "constants.json", "synonyms.json"}
    THEN [kind |-> "ignored", language_code |-> "", ios_language_dir |-> "",
          exists_called |-> {}, printed |-> {}]
  ELSE
    LET language_code    == main_mapped_language_code(Concat(replace_json(json_file)))
        ios_language_dir == language_code \o ".lproj"
    IN IF language_code \in unsupported_localization
         THEN [kind |-> "unsupported", language_code |-> language_code,
               ios_language_dir |-> ios_language_dir, exists_called |-> {},
               printed |-> {<<"Skipping unsupported", language_code>>}]
       ELSE IF ios_language_dir \notin dirs
         THEN [kind |-> "nodir", language_code |-> language_code,
               ios_language_dir |-> ios_language_dir,
               exists_called |-> {ios_language_dir},
               printed |-> {<<"[WARNING] Skipping", Concat(json_file), language_code>>}]
       ELSE [kind |-> "process", language_code |-> language_code,
             ios_language_dir |-> ios_language_dir,
             exists_called |-> {ios_language_dir}, printed |-> {}]

\* Variant of main_merge: the merged dictionary starts empty instead of as
\* a copy of all_messages.
main_merge_fresh(base, dir, json_file, ios_language_dir) ==
  LET r == read_json_file(dir, json_file)
  IN IF r.exc # "none"
       THEN [exc |-> r.exc, location |-> r.location, all_messages |-> base,
             loaded |-> EmptyDict, merged |-> EmptyDict, ios_json_path |-> "",
             printed |-> r.printed]
     ELSE [exc |-> "none", location |-> "", all_messages |-> base,
           loaded |-> r.defs, merged |-> dict_update(EmptyDict, r.defs),
           ios_json_path |-> ios_language_dir \o "/bky_messages.json",
           printed |-> {}]

\* The rest of the iteration of main: copy, update, name the file to write.
main_merge(base, dir, json_file, ios_language_dir) ==
  LET r == read_json_file(dir, json_file)
  IN IF r.exc # "none"
       THEN [exc |-> r.exc, location |-> r.location, all_messages |-> base,
             loaded |-> EmptyDict, merged |-> EmptyDict, ios_json_path |-> "",
             printed |-> r.printed]
     ELSE [exc |-> "none", location |-> "", all_messages |-> base,
           loaded |-> r.defs, merged |-> dict_update(base, r.defs),
           ios_json_path |-> ios_language_dir \o "/bky_messages.json",
           printed |-> {}]

(***************************************************************************)
(* The run of a merger script.                                             *)
(***************************************************************************)
Scripts == {"update_i18n_messages", "update_localization"}

Check(json_file, dirs) ==
  IF script = "update_i18n_messages"
    THEN update_i18n_messages_check(json_file, dirs)
    ELSE main_check(json_file, dirs)

Merge(base, dir, json_file, ios_language_dir) ==
  IF script = "update_i18n_messages"
    THEN update_i18n_messages_merge(base, dir, json_file, ios_language_dir)
    ELSE main_merge(base, dir, json_file, ios_language_dir)

\* What the loop did not do for a file it skipped.
NoMerge ==
  [exc |-> "none", location |-> "", loaded |-> EmptyDict, merged |-> EmptyDict,
   ios_json_path |-> "", printed |-> {}]

\* shutil.copyfile(web_json_dir/name, ios_messages_dir/dest): IOError when the
\* source is missing.
copyfile(name, dest) ==
  IF name \in web_json_dir
    THEN /\ ios_files' = (dest :> Concat(name)) @@ ios_files
         /\ raised' = raised
    ELSE /\ ios_files' = ios_files
         /\ raised' = "IOError"

CopyConstants ==
  /\ pc = "copy_constants"
  /\ copyfile(constants_json, "bky_constants.json")
  /\ pc' = IF raised' = "none" THEN "copy_synonyms" ELSE "error"
  /\ UNCHANGED <<script, web_json_dir, en_content, ios_dirs, all_messages,
                 json_files, visited, exists_calls, stdout, pull>>

CopySynonyms ==
  /\ pc = "copy_synonyms"
  /\ copyfile(synonyms_json, "bky_synonyms.json")
  /\ pc' = IF raised' = "none" THEN "read_en" ELSE "error"
  /\ UNCHANGED <<script, web_json_dir, en_content, ios_dirs, all_messages,
                 json_files, visited, exists_calls, stdout, pull>>

\* The directory as read_json_file finds it when it opens en.json.
EnDir == [f \in web_json_dir \cap {en_json} |-> en_content]

\* all_messages = read_json_file(path.join(web_json_dir, "en.json"))
ReadBaseline ==
  /\ pc = "read_en"
  /\ LET r == read_json_file(EnDir, en_json)
     IN /\ all_messages' = r.defs
        /\ raised' = r.exc
        /\ stdout' = stdout \cup r.printed
        /\ pc' = IF r.exc = "none" THEN "walk" ELSE "error"
  /\ UNCHANGED <<script, web_json_dir, en_content, ios_dirs, ios_files,
                 json_files, visited, exists_calls, pull>>

\* for (dirpath, dirnames, filenames) in walk(web_json_dir): ...; break
Walk ==
  /\ pc = "walk"
  /\ json_files' = web_json_dir
  /\ pc' = "loop"
  /\ UNCHANGED <<script, web_json_dir, en_content, ios_dirs, ios_files,
                 all_messages, visited, exists_calls, stdout, raised, pull>>

\* What an iteration can find in json_file: nothing when it skips the file,
\* the content read before when the file is en.json.
Found(json_file) ==
  IF Check(json_file, ios_dirs).kind # "process" THEN {NotRead}
  ELSE IF json_file = en_json THEN {en_content}
  ELSE LocaleContents

\* One iteration of "for json_file in json_files"; `raw` is the content the
\* script finds in the file if it opens it.
ProcessFile(json_file, raw) ==
  /\ pc = "loop"
  /\ json_file \in json_files \ DOMAIN visited
  /\ \E c \in {Check(json_file, ios_dirs)} :
     \E m \in {IF c.kind = "process"
                 THEN Merge(all_messages, (json_file :> raw), json_file,
                            c.ios_language_dir)
                 ELSE NoMerge} :
     \* open(ios_json_path, "w") creates no directory
     \E exc \in {IF c.kind = "process" /\ m.exc = "none"
                    /\ c.ios_language_dir \notin ios_dirs
                   THEN "IOError" ELSE m.exc} :
     \E kind \in {IF c.kind # "process" THEN c.kind
                  ELSE IF exc = "none" THEN "written" ELSE "failed"} :
        /\ exists_calls' = exists_calls \cup c.exists_called
        /\ stdout' = stdout \cup c.printed \cup m.printed
        /\ all_messages' = IF c.kind = "process" THEN m.all_messages
                           ELSE all_messages
        /\ ios_files' = IF kind = "written"
                          THEN (m.ios_json_path :> m.merged) @@ ios_files
                          ELSE ios_files
        /\ visited' = (json_file :>
                        [kind |-> kind, language_code |-> c.language_code,
                         ios_language_dir |-> c.ios_language_dir,
                         raw |-> raw,
                         exc |-> exc, location |-> m.location,
                         loaded |-> m.loaded, merged |-> m.merged,
                         ios_json_path |-> m.ios_json_path]) @@ visited
        /\ raised' = exc
        /\ pc' = IF exc = "none" THEN "loop" ELSE "error"
  /\ UNCHANGED <<script, web_json_dir, en_content, ios_dirs, json_files, pull>>

\* print "Finished updating localization files."
Finish ==
  /\ pc = "loop"
  /\ json_files \subseteq DOMAIN visited
  /\ stdout' = stdout \cup {<<"Finished updating localization files.">>}
  /\ pc' = "done"
  /\ UNCHANGED <<script, web_json_dir, en_content, ios_dirs, ios_files,
                 all_messages, json_files, visited, exists_calls, raised, pull>>

(***************************************************************************)
(* The trees the merger scripts start from.                                *)
(***************************************************************************)
\* The files of `files` that a merger may parse in its loop.
Parsed(files) ==
  {f \in files : endswith_json(f)
                 /\ f \notin {qqq_json, constants_json, synonyms_json}}

\* Directory names a file of the source tree can make the scripts look for.
CandidateDirs(files) ==
  UNION { {Concat(replace_json(f)) \o ".lproj",
           mapped_language_code(Concat(replace_json(f))) \o ".lproj"}
          : f \in Parsed(files) }

MergeInit ==
  /\ script \in Scripts
  /\ \E absent \in {{}} \cup {{f} : f \in RequiredFiles} :
     \E others \in SUBSET OtherFiles :
       /\ Cardinality(others) <= MaxLocaleFiles
       /\ web_json_dir = (RequiredFiles \ absent) \cup others
  /\ en_content \in EnContents
  /\ ios_dirs \in SUBSET CandidateDirs(web_json_dir)
  /\ ios_files = EmptyDict
  /\ pc = "copy_constants"
  /\ all_messages = EmptyDict
  /\ json_files = {}
  /\ visited = EmptyDict
  /\ exists_calls = {}
  /\ stdout = {}
  /\ raised = "none"

(***************************************************************************)
(* pull_web_blockly.py                                                     *)
(***************************************************************************)
\* The statements of the module body, in order.
PullSteps ==
  << [op |-> "mkdir",     a |-> "temp",     b |-> ""],
     [op |-> "pullFile",  a |-> "",         b |-> "blockly_compressed.js"],
     [op |-> "pullFile",  a |-> "",         b |-> "javascript_compressed.js"],
     [op |-> "pullFile",  a |-> "msg/js/",  b |-> "en.js"],
     [op |-> "copy_tree", a |-> "temp/",    b |-> "BlocklyCodeLab"],
     [op |-> "copy_tree", a |-> "temp/",    b |-> "BlocklyCodeLab-Starter"],
     [op |-> "copy_tree", a |-> "temp/",    b |-> "BlocklySample"],
     [op |-> "pullFile",  a |-> "",         b |-> "python_compressed.js"],
     [op |-> "copy_tree", a |-> "temp/",    b |-> "Tests"],
     [op |-> "rmtree",    a |-> "temp",     b |-> ""] >>

PullFileSteps == {i \in DOMAIN PullSteps : PullSteps[i].op = "pullFile"}

\* The number of the "while attempts < 3" of pullFile.
MaxAttempts == 3

\* Variant of pullFile_continue: "while attempts <= 3".
pullFile_continue_inclusive(attempts) == attempts <= MaxAttempts

\* The loop condition of pullFile.
pullFile_continue(attempts) == attempts < MaxAttempts

\* What one pass through the try block can end in: the file is fetched and
\* written, urlopen raises URLError, or a statement raises something else.
Outcomes == {"ok", "URLError", "other"}

PullIdle ==
  [step |-> 0, status |-> "idle", attempts |-> 0, temp_exists |-> FALSE,
   temp |-> {}, folders |-> {}, dests |-> EmptyDict, net |-> 0,
   writes |-> 0, calls |-> EmptyDict]

PullAt(op) ==
  /\ pull.status = "running"
  /\ pull.step \in DOMAIN PullSteps
  /\ PullSteps[pull.step].op = op

\* The script after the statement at pull.step has returned.
PullAdvance(p) ==
  [p EXCEPT !.step = @ + 1, !.attempts = 0, !.net = 0, !.writes = 0,
            !.status = IF p.step = Len(PullSteps) THEN "done" ELSE "running"]

\* if (not os.path.exists("temp")): os.mkdir("temp")
PullMkdir ==
  /\ PullAt("mkdir")
  /\ pull' = PullAdvance([pull EXCEPT !.temp_exists = TRUE,
                                      !.folders = @ \cup {"temp/"}])
  /\ UNCHANGED <<script, web_json_dir, en_content, ios_dirs, ios_files, pc,
                 all_messages, json_files, visited, exists_calls, stdout, raised>>

\* One pass through the body of the while loop of pullFile.
PullFileAttempt(outcome) ==
  /\ PullAt("pullFile")
  /\ pullFile_continue(pull.attempts)
  /\ LET s == PullSteps[pull.step]
     IN pull' =
          CASE outcome = "ok" ->
                 PullAdvance(
                   [pull EXCEPT !.temp = @ \cup {s.a \o s.b},
                                !.folders = @ \cup {"temp/" \o s.a},
                                !.calls = (pull.step :>
                                             [how |-> "returned", net |-> pull.net + 1,
                                              writes |-> pull.writes + 1,
                                              failed |-> pull.attempts]) @@ @])
            [] outcome = "URLError" ->
                 [pull EXCEPT !.attempts = @ + 1, !.net = @ + 1,
                              !.folders = @ \cup {"temp/" \o s.a}]
            [] OTHER ->
                 [pull EXCEPT !.status = "crashed", !.net = @ + 1,
                              !.calls = (pull.step :>
                                           [how |-> "raised", net |-> pull.net + 1,
                                            writes |-> pull.writes,
                                            failed |-> pull.attempts]) @@ @]
  /\ UNCHANGED <<script, web_json_dir, en_content, ios_dirs, ios_files, pc,
                 all_messages, json_files, visited, exists_calls, stdout, raised>>

\* The loop condition is false: pullFile falls off its end and returns None.
PullFileExit ==
  /\ PullAt("pullFile")
  /\ ~pullFile_continue(pull.attempts)
  /\ pull' = PullAdvance(
               [pull EXCEPT !.calls = (pull.step :>
                                         [how |-> "gave up", net |-> pull.net,
                                          writes |-> pull.writes,
                                          failed |-> pull.attempts]) @@ @])
  /\ UNCHANGED <<script, web_json_dir, en_content, ios_dirs, ios_files, pc,
                 all_messages, json_files, visited, exists_calls, stdout, raised>>

\* distutils.dir_util.copy_tree("temp/", dest)
PullCopyTree ==
  /\ PullAt("copy_tree")
  /\ LET dest == PullSteps[pull.step].b
     IN pull' = PullAdvance(
                  [pull EXCEPT !.dests =
                     (dest :> ((IF dest \in DOMAIN pull.dests
                                  THEN pull.dests[dest] ELSE {}) \cup pull.temp))
                     @@ @])
  /\ UNCHANGED <<script, web_json_dir, en_content, ios_dirs, ios_files, pc,
                 all_messages, json_files, visited, exists_calls, stdout, raised>>

\* shutil.rmtree("temp")
PullRmtree ==
  /\ PullAt("rmtree")
  /\ pull' = PullAdvance([pull EXCEPT !.temp_exists = FALSE, !.temp = {},
                                      !.folders = {}])
  /\ UNCHANGED <<script, web_json_dir, en_content, ios_dirs, ios_files, pc,
                 all_messages, json_files, visited, exists_calls, stdout, raised>>

\* The script starts in Samples, where an earlier run that crashed may have
\* left its temp directory behind.
PullInit ==
  /\ \E left \in SUBSET {"blockly_compressed.js", "python_compressed.js"} :
     \E there \in BOOLEAN :
       /\ (left # {}) => there
       /\ pull = [step |-> 1, status |-> "running", attempts |-> 0,
                  temp_exists |-> there, temp |-> left,
                  folders |-> IF there THEN {"temp/"} ELSE {},
                  dests |-> EmptyDict,
                  net |-> 0, writes |-> 0, calls |-> EmptyDict]
  /\ script = "pull_web_blockly"
  /\ web_json_dir = {}
  /\ en_content = NotRead
  /\ ios_dirs = {}
  /\ ios_files = EmptyDict
  /\ pc = "idle"
  /\ all_messages = EmptyDict
  /\ json_files = {}
  /\ visited = EmptyDict
  /\ exists_calls = {}
  /\ stdout = {}
  /\ raised = "none"

PullNext ==
  \/ PullMkdir
  \/ \E outcome \in Outcomes : PullFileAttempt(outcome)
  \/ PullFileExit
  \/ PullCopyTree
  \/ PullRmtree

\* The interpreter runs the script's next statement as long as there is one.
PullSpec == PullInit /\ [][PullNext]_vars /\ WF_vars(PullNext)

(***************************************************************************)
(* The specification of the merger scripts.                                *)
(***************************************************************************)
Init == MergeInit /\ pull = PullIdle

Next ==
  \/ CopyConstants
  \/ CopySynonyms
  \/ ReadBaseline
  \/ Walk
  \/ \E json_file \in json_files \ DOMAIN visited :
       \E raw \in Found(json_file) : ProcessFile(json_file, raw)
  \/ Finish

Spec == Init /\ [][Next]_vars

(***************************************************************************)
(* Vocabulary of the properties.                                           *)
(***************************************************************************)
\* The files for which the loop wrote a bky_messages.json.
Written == {f \in DOMAIN visited : visited[f].kind = "written"}

\* The baseline as read_json_file loads it from en.json when the run starts.
LoadedBaseline == read_json_file(EnDir, en_json).defs

\* The file name without ".json", and the code the scripts make of it.
RawCode(f)    == Concat(replace_json(f))
MappedCode(f) == IF RawCode(f) = "be-tarask" THEN "be" ELSE RawCode(f)

\* The unsupported list of the script that runs.
UnsupportedList ==
  IF script = "update_i18n_messages" THEN unsupported_i18n
  ELSE unsupported_localization

Reserved(f) ==
  ~endswith_json(f) \/ f \in {qqq_json, constants_json, synonyms_json}

\* Not reserved, mapped code supported.
Supported(f) == ~Reserved(f) /\ MappedCode(f) \notin UnsupportedList

\* The files the step visits.
Reached == (DOMAIN visited') \ (DOMAIN visited)

Finished == <<"Finished updating localization files.">>

be_tarask_json == <<"be-tarask", ".json">>

(***************************************************************************)
(* C1: every catalog a run writes is the union of the baseline loaded from *)
(* en.json at the start of the run and the dictionary loaded from the      *)
(* locale file, the locale's values taking precedence, with no other keys; *)
(* all_messages stays the baseline as loaded, whatever was merged before.  *)
(***************************************************************************)
C1_MergedIsUnion ==
  /\ (pc \in {"walk", "loop", "done"} \/ (pc = "error" /\ json_files # {}))
       => all_messages = LoadedBaseline
  /\ \A f \in Written :
       LET M   == visited[f].merged
           CL  == read_json_file((f :> visited[f].raw), f).defs
           Cen == LoadedBaseline
       IN /\ visited[f].loaded = CL
          /\ DOMAIN M = (DOMAIN Cen) \cup (DOMAIN CL)
          /\ \A k \in DOMAIN Cen : M[k] = IF k \in DOMAIN CL THEN CL[k] ELSE Cen[k]
          /\ \A k \in (DOMAIN CL) \ (DOMAIN Cen) : M[k] = CL[k]
          /\ visited[f].ios_json_path \in DOMAIN ios_files
          /\ \E g \in Written :
               /\ visited[g].ios_json_path = visited[f].ios_json_path
               /\ ios_files[visited[f].ios_json_path] = visited[g].merged

\* Two locale files with different dictionaries were merged in one run.
C1_Witness ==
  /\ pc = "done"
  /\ \E f, g \in Written :
       /\ visited[f].raw = Object(L1Object)
       /\ visited[g].raw = Object(L2Object)
       /\ visited[f].ios_json_path # visited[g].ios_json_path

(***************************************************************************)
(* C2: a file whose mapped code is in the unsupported list of the script   *)
(* is never opened and never written, whether or not its directory exists; *)
(* path.exists is not called for it.                                       *)
(***************************************************************************)
C2_UnsupportedNeverWritten ==
  \A f \in DOMAIN visited :
    MappedCode(f) \in UnsupportedList =>
      /\ visited[f].kind \in {"unsupported", "ignored"}
      /\ visited[f].raw = NotRead
      /\ visited[f].ios_json_path = ""
      /\ (MappedCode(f) \o ".lproj") \notin exists_calls
      /\ (MappedCode(f) \o ".lproj/bky_messages.json") \notin DOMAIN ios_files

\* A file of an unsupported code was reached while its directory exists.
C2_Witness ==
  /\ pc = "done"
  /\ \E f \in DOMAIN visited :
       /\ visited[f].kind = "unsupported"
       /\ (MappedCode(f) \o ".lproj") \in ios_dirs

(***************************************************************************)
(* C3: read_json_file of a path ending in ".json" fails with InputError,   *)
(* carrying the path, both when the file cannot be opened and when its     *)
(* content is not valid JSON.                                              *)
(***************************************************************************)
C3_ReadFailureIsInputError ==
  /\ (pc = "error" /\ "bky_synonyms.json" \in DOMAIN ios_files /\ json_files = {})
       => raised = "InputError"
  /\ \A f \in DOMAIN visited :
       visited[f].raw.kind \in {"unreadable", "invalid"} =>
         /\ visited[f].exc = "InputError"
         /\ visited[f].location = Concat(f)

(***************************************************************************)
(* C4 as stated: the key set of every written catalog equals the key set   *)
(* of the baseline.                                                        *)
(***************************************************************************)
C4_KeysEqualBaseline ==
  \A f \in Written : DOMAIN visited[f].merged = DOMAIN LoadedBaseline

(***************************************************************************)
(* C4 as amended: every written catalog contains every key of the          *)
(* baseline, and its other keys are exactly the keys of the locale file    *)
(* (its "@metadata" apart) that the baseline lacks.                        *)
(***************************************************************************)
C4_KeysAreBaselineAndLocale ==
  /\ \A f \in Written :
       /\ DOMAIN LoadedBaseline \subseteq DOMAIN visited[f].merged
       /\ (DOMAIN visited[f].merged) \ (DOMAIN LoadedBaseline)
            = ((DOMAIN visited[f].raw.obj) \ {"@metadata"}) \ (DOMAIN LoadedBaseline)
  /\ \A f \in Written :
       DOMAIN LoadedBaseline \subseteq DOMAIN ios_files[visited[f].ios_json_path]

\* A written catalog holds a key the baseline lacks and a key only the
\* baseline has.
C4_Witness ==
  \E f \in Written :
    /\ "C" \in DOMAIN visited[f].merged
    /\ "C" \notin DOMAIN LoadedBaseline
    /\ "A" \in DOMAIN visited[f].merged
    /\ "A" \notin DOMAIN visited[f].loaded

(***************************************************************************)
(* C5: no step changes the set of destination directories.  A file whose   *)
(* "<mapped code>.lproj" does not exist when the loop reaches it is        *)
(* skipped: not opened, nothing written, and the run goes on; when the     *)
(* file is not reserved and its code is supported, the skip is the one of  *)
(* the path.exists test, with its warning.  A bky_messages.json is written *)
(* only into a directory that existed before the write.                    *)
(***************************************************************************)
C5Step ==
  /\ ios_dirs' = ios_dirs
  /\ \A f \in Reached :
       LET v   == visited'[f]
           dir == MappedCode(f) \o ".lproj"
       IN /\ dir \notin ios_dirs =>
               /\ v.kind \in {"ignored", "unsupported", "nodir"}
               /\ v.raw = NotRead
               /\ ios_files' = ios_files
               /\ pc' = "loop"
               /\ raised' = "none"
          /\ (dir \notin ios_dirs /\ Supported(f)) =>
               /\ v.kind = "nodir"
               /\ <<"[WARNING] Skipping", Concat(f), MappedCode(f)>> \in stdout'
          /\ v.kind = "written" =>
               /\ dir \in ios_dirs
               /\ v.ios_json_path = dir \o "/bky_messages.json"
               /\ (DOMAIN ios_files') \ (DOMAIN ios_files) \subseteq {v.ios_json_path}

\* C5: every step of a run satisfies C5Step.
C5_DirectoriesNeverChange == [][C5Step]_vars

\* A run ended that skipped a file for its missing directory and wrote
\* another file.
C5_Witness ==
  /\ pc = "done"
  /\ Written # {}
  /\ \E f \in DOMAIN visited :
       /\ visited[f].kind = "nodir"
       /\ (MappedCode(f) \o ".lproj") \notin ios_dirs

(***************************************************************************)
(* C6: when read_json_file fails for a file the loop opens, the run ends   *)
(* in an error there: that step writes nothing and leaves the files        *)
(* written before as they are, no step follows it, and the completion      *)
(* message is not printed.                                                 *)
(***************************************************************************)
C6Step ==
  /\ pc # "error"
  /\ pc' = "error" => Finished \notin stdout'
  /\ \A f \in Reached :
       visited'[f].raw.kind \in {"unreadable", "invalid"} =>
         /\ pc' = "error"
         /\ raised' # "none"
         /\ visited'[f].kind = "failed"
         /\ visited'[f].ios_json_path = ""
         /\ ios_files' = ios_files

\* C6: every step of a run satisfies C6Step.
C6_FailFast == [][C6Step]_vars

\* The run failed on a locale file after it wrote another one and before
\* it reached a third that it would have opened.
C6_Witness ==
  /\ pc = "error"
  /\ \E f \in DOMAIN visited : visited[f].kind = "failed"
  /\ \E g \in Written : visited[g].ios_json_path \in DOMAIN ios_files
  /\ \E h \in json_files \ DOMAIN visited :
       Supported(h) /\ (MappedCode(h) \o ".lproj") \in ios_dirs

(***************************************************************************)
(* C7: the code of be-tarask.json is "be" in the unsupported test, in the  *)
(* path.exists test and in the destination path: the loop opens the file   *)
(* exactly when "be" is supported and be.lproj exists, and then writes     *)
(* be.lproj/bky_messages.json when the file loads; no step looks up or     *)
(* writes under be-tarask.lproj.  Every other code is the file name        *)
(* without ".json", and mapping a mapped code changes nothing.             *)
(***************************************************************************)
C7_MappingBeforeChecks ==
  /\ "be-tarask.lproj" \notin exists_calls
  /\ "be-tarask.lproj/bky_messages.json" \notin DOMAIN ios_files
  /\ be_tarask_json \in DOMAIN visited =>
       LET v == visited[be_tarask_json]
       IN /\ v.language_code = "be"
          /\ v.kind \in {"written", "failed"}
               <=> ("be" \notin UnsupportedList /\ "be.lproj" \in ios_dirs)
          /\ v.kind = "written"
               <=> ("be" \notin UnsupportedList /\ "be.lproj" \in ios_dirs
                    /\ v.raw.kind = "object")
          /\ v.kind = "written" => v.ios_json_path = "be.lproj/bky_messages.json"
  /\ \A f \in DOMAIN visited :
       visited[f].kind # "ignored" =>
         /\ RawCode(f) # "be-tarask" => visited[f].language_code = RawCode(f)
         /\ mapped_language_code(visited[f].language_code) = visited[f].language_code
         /\ main_mapped_language_code(visited[f].language_code)
              = visited[f].language_code

\* be-tarask.json was written while a be-tarask.lproj directory exists.
C7_Witness ==
  /\ be_tarask_json \in Written
  /\ "be-tarask.lproj" \in ios_dirs

(***************************************************************************)
(* C8: every call of pullFile ends, after at most 3 network attempts: it   *)
(* returns at its first successful attempt, having written the file once;  *)
(* after 3 attempts that failed with URLError it returns without raising   *)
(* and without a write, and the script goes on with its next statement.    *)
(***************************************************************************)
C8Safe ==
  /\ pull.net <= 3
  /\ pull.writes = 0
  /\ \A i \in DOMAIN pull.calls :
       LET c == pull.calls[i]
       IN /\ c.net <= 3
          /\ c.how = "returned" =>
               /\ c.writes = 1
               /\ c.net = c.failed + 1
               /\ pull.step > i
          /\ c.how = "gave up" =>
               /\ c.net = 3
               /\ c.failed = 3
               /\ c.writes = 0
               /\ pull.step > i
          /\ c.how = "raised" => pull.status = "crashed"

InPullFile(i) == pull.status = "running" /\ pull.step = i

\* C8: C8Safe always holds, and the script leaves every pullFile call it
\* enters.
C8_PullFileTerminates ==
  /\ []C8Safe
  /\ \A i \in PullFileSteps : InPullFile(i) ~> ~InPullFile(i)

\* The script ran to its end with one call that gave up and one that
\* succeeded at its third attempt.
C8_Witness ==
  /\ pull.status = "done"
  /\ \E i, j \in DOMAIN pull.calls :
       /\ pull.calls[i].how = "gave up"
       /\ pull.calls[j].how = "returned"
       /\ pull.calls[j].failed = 2

(***************************************************************************)
(* C9: within one run no destination bky_messages.json is written more     *)
(* than once: two files never resolve to the same destination.             *)
(***************************************************************************)
C9_NoDestinationWrittenTwice ==
  \A f, g \in Written :
    f # g => visited[f].ios_json_path # visited[g].ios_json_path

(***************************************************************************)
(* C10: for every file the run reaches, the other script takes the same    *)
(* skip / write decision from the same directories, and writes the same    *)
(* catalog to the same relative path.                                      *)
(***************************************************************************)
OtherCheck(f) ==
  IF script = "update_i18n_messages" THEN main_check(f, ios_dirs)
  ELSE update_i18n_messages_check(f, ios_dirs)

OtherMerge(f, raw, dir) ==
  IF script = "update_i18n_messages"
    THEN main_merge(LoadedBaseline, (f :> raw), f, dir)
    ELSE update_i18n_messages_merge(LoadedBaseline, (f :> raw), f, dir)

C10_ScriptsEquivalent ==
  \A f \in DOMAIN visited :
    LET v == visited[f]
        o == OtherCheck(f)
    IN /\ (o.kind = "process") <=> (v.kind \in {"written", "failed"})
       /\ (o.kind = "process" /\ v.kind \in {"written", "failed"}) =>
            LET m == OtherMerge(f, v.raw, o.ios_language_dir)
            IN /\ m.exc = v.exc
               /\ m.merged = v.merged
               /\ m.ios_json_path = v.ios_json_path

============================================================================
